---- MODULE Spec2Model ----
(***************************************************************************)
(* Model of the view reconciler of src/view.rs: the live View tree, the    *)
(* cached Node tree (Tree.node), the set of marked ids (Tree.updated), the *)
(* commands the js! calls hand to the document, and the document itself.   *)
(***************************************************************************)
EXTENDS Integers, Sequences, FiniteSets, TLC

\* ---------------------------------------------------------------- bounds
MaxChildren == 2      \* longest children list a view holds
MaxDepth == 3         \* levels of the view tree (root = level 1)
MaxNodes == 3         \* views in the live tree
MaxId == 4            \* view ids are 1..MaxId
MaxMut == 3           \* view mutations in one run
MaxPass == 2          \* diff passes in one run
MaxMarked == 2        \* ids in the dirty set at once

Ids == 1..MaxId
ParentId == 0         \* id of the document element Tree::new appends to

VARIABLES view, node, updated, doc, cmds, calls, prev, last, muts, passes

vars == <<view, node, updated, doc, cmds, calls, prev, last, muts, passes>>

\* ---------------------------------------------------------------- helpers
Min(a, b) == IF a < b THEN a ELSE b

RECURSIVE Concat(_)
Concat(ss) == IF ss = <<>> THEN <<>> ELSE Head(ss) \o Concat(Tail(ss))

\* ---------------------------------------------------------------- views
\* Attributes: BTreeMap<String, Option<String>>, as a set of entries with one
\* entry per key; v is <<>> for None and <<s>> for Some(s).
KeyOrder == <<"class", "disabled">>
AttrsClass == {[k |-> "class", v |-> <<"a">>]}
AttrsClassDisabled == {[k |-> "class", v |-> <<"a">>], [k |-> "disabled", v |-> <<>>]}
AttrChoices == {AttrsClass, AttrsClassDisabled}

\* State::state of a view that derives Hash: a hash of the view's own data.
Hash(d) == d * 31 + 17
state(v) == Hash(v.data)

\* A view that has just been created: a leaf with the default tag and class "a".
Leaf(id) == [id |-> id, tag |-> "div", attrs |-> AttrsClass, data |-> 0, children |-> <<>>]

\* View::render_inner: a view without child views writes its own data as
\* text; a view with child views keeps the default (writes nothing).
TextToken(d) == [t |-> "text", tag |-> "", id |-> 0, attrs |-> <<>>, data |-> d]
render_inner(v) == IF v.children = <<>> THEN <<TextToken(v.data)>> ELSE <<>>

RECURSIVE Paths(_)
Paths(t) == {<<>>} \cup UNION {{<<i>> \o p : p \in Paths(t.children[i])} : i \in 1..Len(t.children)}

RECURSIVE At(_, _)
At(t, p) == IF p = <<>> THEN t ELSE At(t.children[Head(p)], Tail(p))

RECURSIVE SetAt(_, _, _)
SetAt(t, p, s) ==
    IF p = <<>> THEN s
    ELSE [t EXCEPT !.children[Head(p)] = SetAt(t.children[Head(p)], Tail(p), s)]

RECURSIVE AllIds(_)
AllIds(t) == {t.id} \cup UNION {AllIds(t.children[i]) : i \in 1..Len(t.children)}

Size(t) == Cardinality(Paths(t))

\* ---------------------------------------------------------------- Node::new
OpenToken(tag, id, attrs) == [t |-> "open", tag |-> tag, id |-> id, attrs |-> attrs, data |-> 0]
CloseToken(tag) == [t |-> "close", tag |-> tag, id |-> 0, attrs |-> <<>>, data |-> 0]

\* The attribute part of the opening tag: the entries in key order.
RenderAttrs(attrs) ==
    LET F[i \in 0..Len(KeyOrder)] ==
            IF i = 0 THEN <<>>
            ELSE F[i - 1] \o (IF \E e \in attrs : e.k = KeyOrder[i]
                              THEN <<CHOOSE e \in attrs : e.k = KeyOrder[i]>>
                              ELSE <<>>)
    IN F[Len(KeyOrder)]

\* Node::new(v, w): the Node of v and the markup appended to w.
RECURSIVE NodeNew(_)
\* Node::new that collects and writes the children last to first.
NodeNewReversed(v) ==
    LET k == Len(v.children)
        kids == [i \in 1..k |-> NodeNew(v.children[k + 1 - i])]
    IN [node |-> [id |-> v.id, tag |-> v.tag, value |-> "", state |-> state(v),
                  attrs |-> v.attrs,
                  children |-> [i \in 1..k |-> kids[i].node]],
        w |-> <<OpenToken(v.tag, v.id, RenderAttrs(v.attrs))>>
              \o render_inner(v)
              \o Concat([i \in 1..k |-> kids[i].w])
              \o <<CloseToken(v.tag)>>]

NodeNew(v) ==
    LET kids == [i \in 1..Len(v.children) |-> NodeNew(v.children[i])]
    IN [node |-> [id |-> v.id, tag |-> v.tag, value |-> "", state |-> state(v),
                  attrs |-> v.attrs,
                  children |-> [i \in 1..Len(v.children) |-> kids[i].node]],
        w |-> <<OpenToken(v.tag, v.id, RenderAttrs(v.attrs))>>
              \o render_inner(v)
              \o Concat([i \in 1..Len(v.children) |-> kids[i].w])
              \o <<CloseToken(v.tag)>>]

\* ---------------------------------------------------------------- commands
\* One js! call (or append_element call): the script it runs and its arguments.
Cmd(op, id, html, n) == [op |-> op, id |-> id, html |-> html, n |-> n]

\* ---------------------------------------------------------------- Node::diff
\* One application of Node::diff, as recorded for the pass: where it ran, the
\* Node before, the view it was paired with, the Node after, what it emitted.
Call(path, n, v, r) == [path |-> path, before |-> n, view |-> v, after |-> r.node, out |-> r.out]

\* Replace, naming the element by the id of the new view instead of the old id.
ReplaceByNewId(n, v) ==
    LET r == NodeNew(v)
    IN [node |-> r.node, out |-> <<Cmd("ReplaceElement", r.node.id, r.w, 0)>>, calls |-> <<>>]

\* Node::diff, the branch v.id() != self.id.
Replace(n, v) ==
    LET r == NodeNew(v)
    IN [node |-> r.node, out |-> <<Cmd("ReplaceElement", n.id, r.w, 0)>>, calls |-> <<>>]

\* diff_attrs that compares only the entries that have a value.
diff_attrs_values_only(n, attrs) ==
    IF {e \in n.attrs : e.v # <<>>} = {e \in attrs : e.v # <<>>} THEN n
    ELSE [n EXCEPT !.attrs = attrs]

\* Node::diff_attrs
diff_attrs(n, attrs) == IF n.attrs = attrs THEN n ELSE [n EXCEPT !.attrs = attrs]

\* CheckState without the store self.state = state.
CheckStateNoStore(n, v) ==
    IF state(v) # n.state THEN diff_attrs(n, v.attrs) ELSE n

\* CheckState that diffs the attributes whether or not the state changed.
CheckStateAlwaysAttrs(n, v) ==
    diff_attrs(IF state(v) # n.state THEN [n EXCEPT !.state = state(v)] ELSE n, v.attrs)

\* Node::diff, the state check: the Node afterwards.
CheckState(n, v) ==
    IF state(v) # n.state THEN diff_attrs([n EXCEPT !.state = state(v)], v.attrs) ELSE n

\* DiffLeaf without the test of changed.
DiffLeafAlways(n1, v, changed) ==
    [node |-> n1, out |-> <<Cmd("ReplaceContent", n1.id, render_inner(v), 0)>>, calls |-> <<>>]

\* Node::diff, the branch for a node without children on either side.
DiffLeaf(n1, v, changed) ==
    [node |-> n1,
     out |-> IF changed THEN <<Cmd("ReplaceContent", n1.id, render_inner(v), 0)>> ELSE <<>>,
     calls |-> <<>>]

\* RemoveTrailing with the count of all cached children instead of -diff.
RemoveTrailingAll(n, diff) ==
    IF diff < 0 THEN <<Cmd("RemoveTrailingChildren", n.id, <<>>, Len(n.children))>> ELSE <<>>

\* Node::diff_children, the removal of nodes from the end.
RemoveTrailing(n, diff) ==
    IF diff < 0 THEN <<Cmd("RemoveTrailingChildren", n.id, <<>>, -diff)>> ELSE <<>>

\* Truncate without the truncation.
TruncateNone(children, len) == children

\* self.children.truncate(views.len())
Truncate(children, len) == IF len < Len(children) THEN SubSeq(children, 1, len) ELSE children

\* Appended without the skip: the first views instead of the new ones.
AppendedNoSkip(views, kept) ==
    IF Len(views) > Len(kept)
    THEN [j \in 1..(Len(views) - Len(kept)) |-> NodeNew(views[j])]
    ELSE <<>>

\* Node::diff_children, the append of new nodes: the views past the cached list.
Appended(views, kept) ==
    IF Len(views) > Len(kept)
    THEN [j \in 1..(Len(views) - Len(kept)) |-> NodeNew(views[Len(kept) + j])]
    ELSE <<>>

RECURSIVE NodeDiff(_, _, _), diff_children(_, _, _)

diff_children(n, views, path) ==
    LET diff == Len(views) - Len(n.children)
        kept == Truncate(n.children, Len(views))
        m == Min(Len(kept), Len(views))
        rs == [i \in 1..m |-> NodeDiff(kept[i], views[i], path \o <<i>>)]
        news == IF diff > 0 THEN Appended(views, kept) ELSE <<>>
    IN [node |-> [n EXCEPT !.children = [i \in 1..m |-> rs[i].node]
                                        \o SubSeq(kept, m + 1, Len(kept))
                                        \o [j \in 1..Len(news) |-> news[j].node]],
        out |-> RemoveTrailing(n, diff)
                \o Concat([i \in 1..m |-> rs[i].out])
                \o [j \in 1..Len(news) |-> Cmd("AppendChild", n.id, news[j].w, 0)],
        calls |-> Concat([i \in 1..m |-> rs[i].calls])]

\* Node::diff that diffs the children only when its own state changed.
NodeDiffIfChanged(n, v, path) ==
    LET r == IF v.id # n.id THEN Replace(n, v)
             ELSE LET n1 == CheckState(n, v)
                      changed == state(v) # n.state
                  IN IF Len(n1.children) = 0 /\ Len(v.children) = 0
                     THEN DiffLeaf(n1, v, changed)
                     ELSE IF changed THEN diff_children(n1, v.children, path)
                     ELSE [node |-> n1, out |-> <<>>, calls |-> <<>>]
    IN [node |-> r.node, out |-> r.out, calls |-> <<Call(path, n, v, r)>> \o r.calls]

\* Node::diff that takes the leaf branch whenever the view has no children.
NodeDiffLiveLeaf(n, v, path) ==
    LET r == IF v.id # n.id THEN Replace(n, v)
             ELSE LET n1 == CheckState(n, v)
                      changed == state(v) # n.state
                  IN IF Len(v.children) = 0
                     THEN DiffLeaf([n1 EXCEPT !.children = <<>>], v, changed)
                     ELSE diff_children(n1, v.children, path)
    IN [node |-> r.node, out |-> r.out, calls |-> <<Call(path, n, v, r)>> \o r.calls]

NodeDiff(n, v, path) ==
    LET r == IF v.id # n.id THEN Replace(n, v)
             ELSE LET n1 == CheckState(n, v)
                      changed == state(v) # n.state
                  IN IF Len(n1.children) = 0 /\ Len(v.children) = 0
                     THEN DiffLeaf(n1, v, changed)
                     ELSE diff_children(n1, v.children, path)
    IN [node |-> r.node, out |-> r.out, calls |-> <<Call(path, n, v, r)>> \o r.calls]

\* ---------------------------------------------------------------- Node::check_marked
RECURSIVE check_marked(_, _, _, _), CheckChildren(_, _, _, _, _)

\* The loop of check_marked over self.children zipped with v.children(), from
\* index i on; marked is threaded through the calls.
CheckChildren(n, marked, v, path, i) ==
    IF i > Min(Len(n.children), Len(v.children))
    THEN [node |-> n, marked |-> marked, out |-> <<>>, calls |-> <<>>]
    ELSE LET r == check_marked(n.children[i], marked, v.children[i], path \o <<i>>)
             rest == CheckChildren([n EXCEPT !.children[i] = r.node], r.marked, v, path, i + 1)
         IN [node |-> rest.node, marked |-> rest.marked,
             out |-> r.out \o rest.out, calls |-> r.calls \o rest.calls]

\* check_marked without the return after the diff: it goes on into the children.
check_marked_no_return(n, marked, v, path) ==
    IF n.id \in marked
    THEN LET r == NodeDiff(n, v, path)
             rest == CheckChildren(r.node, marked \ {n.id}, v, path, 1)
         IN [node |-> rest.node, marked |-> rest.marked,
             out |-> r.out \o rest.out, calls |-> r.calls \o rest.calls]
    ELSE CheckChildren(n, marked, v, path, 1)

\* check_marked that diffs a node as soon as a marked id is in its subtree.
check_marked_subtree(n, marked, v, path) ==
    IF AllIds(n) \cap marked # {}
    THEN LET r == NodeDiff(n, v, path)
         IN [node |-> r.node, marked |-> marked \ {n.id}, out |-> r.out, calls |-> r.calls]
    ELSE CheckChildren(n, marked, v, path, 1)

\* check_marked without the walk into the children of an unmarked node.
check_marked_no_descent(n, marked, v, path) ==
    IF n.id \in marked
    THEN LET r == NodeDiff(n, v, path)
         IN [node |-> r.node, marked |-> marked \ {n.id}, out |-> r.out, calls |-> r.calls]
    ELSE [node |-> n, marked |-> marked, out |-> <<>>, calls |-> <<>>]

check_marked(n, marked, v, path) ==
    IF n.id \in marked
    THEN LET r == NodeDiff(n, v, path)
         IN [node |-> r.node, marked |-> marked \ {n.id}, out |-> r.out, calls |-> r.calls]
    ELSE CheckChildren(n, marked, v, path, 1)

\* ---------------------------------------------------------------- the document
\* A node of the document: an element or a text node.
Element(tok, children) ==
    [kind |-> "el", id |-> tok.id, tag |-> tok.tag,
     attrs |-> {[k |-> tok.attrs[i].k,
                 v |-> IF tok.attrs[i].v = <<>> THEN "" ELSE tok.attrs[i].v[1]]
                : i \in 1..Len(tok.attrs)},
     data |-> 0, children |-> children]
TextNode(d) == [kind |-> "text", id |-> 0, tag |-> "", attrs |-> {}, data |-> d, children |-> <<>>]

\* The HTML parser behind innerHTML/outerHTML: the nodes written in w from
\* token i up to the closing tag of the enclosing element (or the end), and
\* the position of that closing tag.
RECURSIVE ParseSeq(_, _)
ParseSeq(w, i) ==
    IF i > Len(w) \/ w[i].t = "close" THEN [nodes |-> <<>>, next |-> i]
    ELSE IF w[i].t = "text"
    THEN LET rest == ParseSeq(w, i + 1)
         IN [nodes |-> <<TextNode(w[i].data)>> \o rest.nodes, next |-> rest.next]
    ELSE LET inner == ParseSeq(w, i + 1)
             rest == ParseSeq(w, inner.next + 1)
         IN [nodes |-> <<Element(w[i], inner.nodes)>> \o rest.nodes, next |-> rest.next]

Parse(w) == ParseSeq(w, 1).nodes

\* document.getElementByID: the path of the first element, in document
\* order, that carries the id; <<p>> when there is one, <<>> when there is none.
RECURSIVE Find(_, _), FindIn(_, _, _)
Find(t, id) ==
    IF t.kind = "el" /\ t.id = id THEN << <<>> >> ELSE FindIn(t.children, id, 1)
FindIn(children, id, i) ==
    IF i > Len(children) THEN <<>>
    ELSE LET r == Find(children[i], id)
         IN IF r # <<>> THEN << <<i>> \o r[1] >> ELSE FindIn(children, id, i + 1)

Front(p) == SubSeq(p, 1, Len(p) - 1)

\* el.outerHTML = html
SetOuter(d, p, html) ==
    LET par == At(d, Front(p))
        i == p[Len(p)]
    IN SetAt(d, Front(p), [par EXCEPT !.children =
            SubSeq(par.children, 1, i - 1) \o Parse(html)
            \o SubSeq(par.children, i + 1, Len(par.children))])

\* el.innerHTML = html
SetInner(d, p, html) == SetAt(d, p, [At(d, p) EXCEPT !.children = Parse(html)])

\* for (let i = 0; i <= n; i++): the number of times the loop body runs.
LoopRuns(n) == n + 1

\* for (let i = 0; i <= n; i++) el.lastChild.remove(): the children left.
\* The loop body runs for i = 0..n; it stops when there is no last child.
RemovedLast(children, n) ==
    SubSeq(children, 1,
           IF Len(children) > LoopRuns(n) THEN Len(children) - LoopRuns(n) ELSE 0)

\* append_element: el.append(cont.firstChild)
AppendFirst(d, p, html) ==
    SetAt(d, p, [At(d, p) EXCEPT !.children = @ \o SubSeq(Parse(html), 1, 1)])

\* The document after one command; a command whose element is missing
\* leaves the document as it is.
ApplyCmd(d, c) ==
    LET f == Find(d, c.id)
    IN IF f = <<>> THEN d
       ELSE IF c.op = "ReplaceElement" THEN
                IF f[1] = <<>> THEN d ELSE SetOuter(d, f[1], c.html)
       ELSE IF c.op = "ReplaceContent" THEN SetInner(d, f[1], c.html)
       ELSE IF c.op = "RemoveTrailingChildren" THEN
                SetAt(d, f[1], [At(d, f[1]) EXCEPT !.children = RemovedLast(@, c.n)])
       ELSE AppendFirst(d, f[1], c.html)

RECURSIVE ApplyAll(_, _)
ApplyAll(d, cs) == IF cs = <<>> THEN d ELSE ApplyAll(ApplyCmd(d, Head(cs)), Tail(cs))

EmptyDoc == [kind |-> "el", id |-> ParentId, tag |-> "body", attrs |-> {}, data |-> 0,
             children |-> <<>>]

\* ---------------------------------------------------------------- initial views
\* The shapes of view trees of at most d levels: a shape is the sequence of
\* the shapes of its children.
RECURSIVE Shapes(_)
Shapes(d) ==
    IF d <= 1 THEN {<<>>}
    ELSE {<<>>} \cup UNION {[1..k -> Shapes(d - 1)] : k \in 1..MaxChildren}

RECURSIVE ShapeSize(_)
ShapeSize(s) == 1 + Len(Concat([i \in 1..Len(s) |-> [j \in 1..ShapeSize(s[i]) |-> 0]]))

\* The view of shape s whose ids count up from first in pre-order, as
\* new_id() hands them out.
RECURSIVE Label(_, _), LabelKids(_, _, _)
LabelKids(s, first, i) ==
    IF i > Len(s) THEN <<>>
    ELSE <<Label(s[i], first)>> \o LabelKids(s, first + ShapeSize(s[i]), i + 1)
Label(s, first) == [Leaf(first) EXCEPT !.children = LabelKids(s, first + 1, 1)]

InitViews == {Label(s, 1) : s \in {x \in Shapes(MaxDepth) : ShapeSize(x) <= Min(MaxNodes, MaxId)}}

\* ---------------------------------------------------------------- Tree
\* Tree::new
Init ==
    /\ view \in InitViews
    /\ node = NodeNew(view).node
    /\ updated = {}
    /\ cmds = <<Cmd("AppendChild", ParentId, NodeNew(view).w, 0)>>
    /\ doc = ApplyAll(EmptyDoc, cmds)
    /\ calls = <<>>
    /\ prev = [node |-> node, marked |-> updated, doc |-> doc]
    /\ last = [op |-> "new", id |-> 0]
    /\ muts = 0
    /\ passes = 0

\* Tree::diff without the clear.
ClearedNot(marked) == marked

\* self.updated.clear()
Cleared(marked) == {}

\* Tree::diff
TreeDiff ==
    /\ passes < MaxPass
    /\ LET r == check_marked(node, updated, view, <<>>)
       IN /\ node' = r.node
          /\ updated' = Cleared(r.marked)
          /\ cmds' = r.out
          /\ calls' = r.calls
          /\ doc' = ApplyAll(doc, r.out)
    /\ prev' = [node |-> node, marked |-> updated, doc |-> doc]
    /\ last' = [op |-> "diff", id |-> 0]
    /\ passes' = passes + 1
    /\ UNCHANGED <<view, muts>>

\* Tree::update
Inserted(marked, id) == marked \cup {id}

TreeUpdate ==
    \E id \in Ids :
        /\ Cardinality(Inserted(updated, id)) <= MaxMarked
        /\ updated' = Inserted(updated, id)
        /\ last' = [op |-> "update", id |-> id]
        /\ cmds' = <<>>
        /\ calls' = <<>>
        /\ prev' = [node |-> node, marked |-> updated, doc |-> doc]
        /\ UNCHANGED <<view, node, doc, muts, passes>>

\* ---------------------------------------------------------------- the application
\* The application changes the data behind the views between passes.
Mutate(v) ==
    /\ muts < MaxMut
    /\ view' = v
    /\ muts' = muts + 1
    /\ last' = [op |-> "view", id |-> 0]
    /\ cmds' = <<>>
    /\ calls' = <<>>
    /\ prev' = [node |-> node, marked |-> updated, doc |-> doc]
    /\ UNCHANGED <<node, updated, doc, passes>>

FreeIds == Ids \ AllIds(view)

\* A view's own data changes: state() and render_inner() change with it.
Touch ==
    \E p \in Paths(view) :
        Mutate(SetAt(view, p, [At(view, p) EXCEPT !.data = 1 - @]))

\* attrs() returns something else.
SetAttrs ==
    \E p \in Paths(view), a \in AttrChoices :
        /\ a # At(view, p).attrs
        /\ Mutate(SetAt(view, p, [At(view, p) EXCEPT !.attrs = a]))

\* Another view, with another id, takes the place of the view at p.
SetId ==
    \E p \in Paths(view), id \in FreeIds :
        Mutate(SetAt(view, p, [At(view, p) EXCEPT !.id = id]))

\* children() grows by a new view.
Push ==
    \E p \in Paths(view), id \in FreeIds :
        /\ Len(p) + 1 < MaxDepth
        /\ Len(At(view, p).children) < MaxChildren
        /\ Size(view) < MaxNodes
        /\ Mutate(SetAt(view, p, [At(view, p) EXCEPT !.children = Append(@, Leaf(id))]))

\* children() loses its last views.
Pop ==
    \E p \in Paths(view), len \in 0..MaxChildren :
        /\ len < Len(At(view, p).children)
        /\ Mutate(SetAt(view, p, [At(view, p) EXCEPT !.children = SubSeq(@, 1, len)]))

\* children() returns the same views in another order: the first goes last.
Rotate ==
    \E p \in Paths(view) :
        /\ Len(At(view, p).children) >= 2
        /\ Mutate(SetAt(view, p, [At(view, p) EXCEPT !.children = Tail(@) \o <<Head(@)>>]))

Next ==
    \/ TreeDiff
    \/ TreeUpdate
    \/ Touch
    \/ SetAttrs
    \/ SetId
    \/ Push
    \/ Pop
    \/ Rotate

Spec == Init /\ [][Next]_vars

\* ---------------------------------------------------------------- reading a pass
\* After a pass (last.op = "diff"): prev holds the Node tree, the dirty set
\* and the document as they were before it, calls the applications of
\* Node::diff in the order they began, cmds the commands in emission order.
AfterPass == last.op = "diff"
CallSet == {calls[i] : i \in 1..Len(calls)}
ProperPrefix(q, p) == Len(q) < Len(p) /\ SubSeq(p, 1, Len(q)) = q
CallsAt(p) == {i \in 1..Len(calls) : calls[i].path = p}
\* The calls made for the children of c's node, keyed by child index.
ChildIdx(c) == {i \in 1..(MaxChildren + 1) : CallsAt(c.path \o <<i>>) # {}}
ChildCall(c, i) == calls[CHOOSE k \in CallsAt(c.path \o <<i>>) : TRUE]
ChildOuts(c, n) == Concat([i \in 1..n |-> ChildCall(c, i).out])
\* The calls check_marked made itself (not nested in another call).
IsTop(c) == \A d \in CallSet : ~ProperPrefix(d.path, c.path)
TopCalls == SelectSeq(calls, IsTop)

\* The Node n holds exactly what the view v shows, all the way down.
RECURSIVE Mirrors(_, _)
Mirrors(n, v) ==
    /\ n.id = v.id /\ n.tag = v.tag /\ n.state = state(v) /\ n.attrs = v.attrs
    /\ Len(n.children) = Len(v.children)
    /\ \A i \in 1..Len(n.children) : Mirrors(n.children[i], v.children[i])

\* The document element e is what the view v looks like, all the way down.
RECURSIVE DomMirrors(_, _)
DomMirrors(e, v) ==
    /\ e.kind = "el" /\ e.id = v.id /\ e.tag = v.tag
    /\ e.attrs = {[k |-> a.k, v |-> IF a.v = <<>> THEN "" ELSE a.v[1]] : a \in v.attrs}
    /\ IF v.children = <<>> THEN e.children = <<TextNode(v.data)>>
       ELSE /\ Len(e.children) = Len(v.children)
            /\ \A i \in 1..Len(e.children) : DomMirrors(e.children[i], v.children[i])

\* The markup w is exactly one element, and it shows the view v.
MarkupOf(w, v) == Len(Parse(w)) = 1 /\ DomMirrors(Parse(w)[1], v)

\* ---------------------------------------------------------------- claims
\* C1: a diff of a node whose view is unchanged (same id, fingerprint,
\* attributes and children subtree) emits no command and leaves the Node as
\* it was; a pass that diffs only such nodes emits nothing and leaves the
\* whole Node tree unchanged.
C1_NoOpIdempotence ==
    AfterPass =>
        /\ \A c \in CallSet : Mirrors(c.before, c.view) => c.out = <<>> /\ c.after = c.before
        /\ (\A i \in 1..Len(TopCalls) : Mirrors(TopCalls[i].before, TopCalls[i].view))
              => cmds = <<>> /\ node = prev.node
C1_Witness ==
    /\ AfterPass
    /\ \E c \in CallSet : IsTop(c) /\ Mirrors(c.before, c.view) /\ c.before.children # <<>>
    /\ cmds = <<>>

\* C2: a diff of a Node against a view with another id emits exactly one
\* ReplaceElement(oldId, markup of the view), runs no diff below that node,
\* and leaves in the slot a Node that mirrors the view.
C2_FullReplace ==
    AfterPass =>
        \A c \in CallSet : c.view.id # c.before.id =>
            /\ Len(c.out) = 1
            /\ c.out[1].op = "ReplaceElement"
            /\ c.out[1].id = c.before.id
            /\ MarkupOf(c.out[1].html, c.view)
            /\ \A d \in CallSet : ~ProperPrefix(c.path, d.path)
            /\ Mirrors(c.after, c.view)
            /\ At(node, c.path) = c.after
C2_Witness ==
    /\ AfterPass
    /\ \E c \in CallSet : /\ c.view.id # c.before.id
                          /\ c.before.children # <<>>
                          /\ c.view.children # <<>>

\* C3: a diff of a childless Node against a childless view of the same id
\* with another fingerprint emits exactly one ReplaceContent(id, the view's
\* inner markup) and stores the view's fingerprint.
C3_LeafUpdate ==
    AfterPass =>
        \A c \in CallSet :
            (/\ c.view.id = c.before.id
             /\ c.before.children = <<>> /\ c.view.children = <<>>
             /\ state(c.view) # c.before.state) =>
                /\ Len(c.out) = 1
                /\ c.out[1].op = "ReplaceContent"
                /\ c.out[1].id = c.view.id
                /\ Parse(c.out[1].html) = <<TextNode(c.view.data)>>
                /\ c.after.state = state(c.view)
                /\ At(node, c.path).state = state(c.view)
C3_Witness ==
    /\ AfterPass
    /\ \E c \in CallSet : /\ c.view.id = c.before.id
                          /\ c.before.children = <<>> /\ c.view.children = <<>>
                          /\ state(c.view) # c.before.state
                          /\ c.path # <<>>

\* C4: a children diff with fewer live than cached children emits exactly
\* one RemoveTrailingChildren(id, cached - live), before anything the
\* surviving children emit, truncates the cached list to the live length
\* and diffs exactly the children below that length.
IsShrink(c) == c.view.id = c.before.id /\ Len(c.view.children) < Len(c.before.children)
C4_Shrink ==
    AfterPass =>
        \A c \in CallSet : IsShrink(c) =>
            LET m == Len(c.view.children)
            IN /\ ChildIdx(c) = 1..m
               /\ \A i \in 1..m : ChildCall(c, i).before = c.before.children[i]
               /\ c.out = <<Cmd("RemoveTrailingChildren", c.before.id, <<>>,
                                Len(c.before.children) - m)>> \o ChildOuts(c, m)
               /\ Len(c.after.children) = m
C4_Witness ==
    /\ AfterPass
    /\ \E c \in CallSet : /\ IsShrink(c)
                          /\ Len(c.view.children) >= 1
                          /\ ChildOuts(c, Len(c.view.children)) # <<>>

\* C5: the RemoveTrailingChildren script run with count k removes exactly
\* the last k children of the element: when a pass does nothing but shrink
\* a node whose element had as many children as the cached list, the element
\* ends with as many children as the truncated cached list.
C5_RemoveTrailing ==
    AfterPass =>
        \A c \in CallSet :
            (/\ IsShrink(c) /\ cmds = c.out /\ Len(c.out) = 1
             /\ Find(prev.doc, c.before.id) # <<>>
             /\ Len(At(prev.doc, Find(prev.doc, c.before.id)[1]).children)
                    = Len(c.before.children)) =>
                LET e0 == At(prev.doc, Find(prev.doc, c.before.id)[1])
                    e1 == At(doc, Find(doc, c.before.id)[1])
                IN /\ e1.children = SubSeq(e0.children, 1, Len(e0.children) - c.out[1].n)
                   /\ Len(e1.children) = Len(c.after.children)

\* C6: a children diff with more live than cached children first diffs the
\* cached children, then, for each further live child in order, appends a
\* Node mirroring it and emits one AppendChild(id, markup of that child).
IsGrow(c) == c.view.id = c.before.id /\ Len(c.view.children) > Len(c.before.children)
C6_Grow ==
    AfterPass =>
        \A c \in CallSet : IsGrow(c) =>
            LET n == Len(c.before.children)
                m == Len(c.view.children)
                first == ChildOuts(c, n)
            IN /\ ChildIdx(c) = 1..n
               /\ \A i \in 1..n : ChildCall(c, i).before = c.before.children[i]
               /\ Len(c.out) = Len(first) + (m - n)
               /\ SubSeq(c.out, 1, Len(first)) = first
               /\ \A j \in (n + 1)..m :
                    LET a == c.out[Len(first) + j - n]
                    IN /\ a.op = "AppendChild" /\ a.id = c.before.id
                       /\ MarkupOf(a.html, c.view.children[j])
                       /\ Mirrors(c.after.children[j], c.view.children[j])
               /\ Len(c.after.children) = m
C6_Witness ==
    /\ AfterPass
    /\ \E c \in CallSet : /\ IsGrow(c)
                          /\ Len(c.before.children) >= 1
                          /\ ChildOuts(c, Len(c.before.children)) # <<>>

\* C7: after a pass the dirty set is empty; the commands of the pass are
\* those of the diffs check_marked started, each for a different marked id
\* found on a Node; a marked id found on no Node the walk reaches starts no
\* diff and emits nothing.
C7_DirtyDrained ==
    AfterPass =>
        /\ updated = {}
        /\ cmds = Concat([i \in 1..Len(TopCalls) |-> TopCalls[i].out])
        /\ \A i \in 1..Len(TopCalls) :
              /\ TopCalls[i].before.id \in prev.marked
              /\ \A j \in 1..Len(TopCalls) :
                    TopCalls[j].before.id = TopCalls[i].before.id => j = i
        /\ TopCalls = <<>> => cmds = <<>> /\ node = prev.node
C7_Witness ==
    /\ AfterPass
    /\ cmds # <<>>
    /\ \E id \in prev.marked :
          /\ id \in AllIds(prev.node)
          /\ \A c \in CallSet : c.before.id # id

\* The number of times Node::diff ran on the Node at path p in the pass.
Count(p) == Cardinality(CallsAt(p))
MarkedAt(p) == At(prev.node, p).id \in prev.marked
\* p comes before q in the pre-order walk of the tree.
Before(p, q) ==
    \/ ProperPrefix(p, q)
    \/ \E i \in 1..Min(Len(p), Len(q)) :
          /\ SubSeq(p, 1, i - 1) = SubSeq(q, 1, i - 1)
          /\ p[i] < q[i]
\* The walk gets to the cached Node at p: its position exists in the live
\* tree, every Node above it has the id of the live view at its position
\* (so no diff above it rebuilds or cuts it), and no Node before it in the
\* walk carries its id (so its id is still in the dirty set).
Reached(p) ==
    /\ p \in Paths(view)
    /\ \A q \in Paths(prev.node) : ProperPrefix(q, p) => At(prev.node, q).id = At(view, q).id
    /\ \A q \in Paths(prev.node) : Before(q, p) => At(prev.node, q).id # At(prev.node, p).id

MarkIdempotent ==
    /\ \A id \in Ids : Inserted(Inserted(updated, id), id) = Inserted(updated, id)
    /\ last.op = "update" => last.id \in updated /\ updated = prev.marked \cup {last.id}

\* C8 as stated: after a pass, every marked Node of the cached tree was
\* diffed exactly once; marking an id twice is the same as marking it once.
C8_EveryMarkedOnce ==
    /\ MarkIdempotent
    /\ AfterPass => \A p \in Paths(prev.node) : MarkedAt(p) => Count(p) = 1

\* C8 as amended: in a pass no Node is diffed twice, and every marked Node
\* the walk gets to is diffed exactly once, also below a marked ancestor;
\* marking an id twice is the same as marking it once.
C8_Batching ==
    /\ MarkIdempotent
    /\ AfterPass =>
          /\ \A c \in CallSet : Count(c.path) = 1
          /\ \A p \in Paths(prev.node) : MarkedAt(p) /\ Reached(p) => Count(p) = 1
C8_Witness ==
    /\ AfterPass
    /\ \E p, q \in Paths(prev.node) :
          /\ ProperPrefix(p, q)
          /\ MarkedAt(p) /\ MarkedAt(q)
          /\ Reached(p) /\ Reached(q)
          /\ Count(p) = 1 /\ Count(q) = 1

\* The cached Node at p is not marked and stands below no marked Node.
Unmarked(p) ==
    \A q \in Paths(prev.node) : (q = p \/ ProperPrefix(q, p)) => ~MarkedAt(q)
\* The ids of the cached Nodes that are marked or stand below a marked Node.
MarkedSubtreeIds == {At(prev.node, p).id : p \in {x \in Paths(prev.node) : ~Unmarked(x)}}
Untouched(p) ==
    /\ Count(p) = 0
    /\ p \in Paths(node)
    /\ At(node, p).state = At(prev.node, p).state
    /\ At(node, p).attrs = At(prev.node, p).attrs
    /\ Len(At(node, p).children) = Len(At(prev.node, p).children)

\* C9 as stated: a Node that is not marked and has no marked ancestor is not
\* diffed, keeps its fingerprint, attributes and children count, and no
\* command names its id; every command names the id of a marked Node or of a
\* Node below one.
C9_NoCommandNamesUnmarked ==
    AfterPass =>
        /\ \A p \in Paths(prev.node) : Unmarked(p) =>
              /\ Untouched(p)
              /\ \A i \in 1..Len(cmds) : cmds[i].id # At(prev.node, p).id
        /\ \A i \in 1..Len(cmds) : cmds[i].id \in MarkedSubtreeIds

\* C9 as amended: such a Node is not diffed and keeps its fingerprint,
\* attributes and children count; every command is emitted by the diff of a
\* marked Node or of a Node below one, and names the id of such a Node.
C9_Localized ==
    AfterPass =>
        /\ \A p \in Paths(prev.node) : Unmarked(p) => Untouched(p)
        /\ \A c \in CallSet : ~Unmarked(c.path)
        /\ cmds = Concat([i \in 1..Len(TopCalls) |-> TopCalls[i].out])
        /\ \A i \in 1..Len(cmds) : cmds[i].id \in MarkedSubtreeIds
C9_Witness ==
    /\ AfterPass
    /\ cmds # <<>>
    /\ \E p, q \in Paths(prev.node) :
          /\ ProperPrefix(p, q)
          /\ Unmarked(p) /\ MarkedAt(q) /\ Count(q) = 1
          /\ p \in Paths(view)
          /\ state(At(view, p)) # At(prev.node, p).state

\* The Node n has, all the way down, as many children as the view v, with
\* the ids of the view's children in the same positions.
RECURSIVE ShapeMatches(_, _)
ShapeMatches(n, v) ==
    /\ Len(n.children) = Len(v.children)
    /\ \A i \in 1..Len(n.children) :
          /\ n.children[i].id = v.children[i].id
          /\ ShapeMatches(n.children[i], v.children[i])

\* C10: after Node::diff ran on a Node, every Node of its subtree has as
\* many children as its view, with the same ids in the same positions.
C10_ChildrenReconciled ==
    AfterPass =>
        \A c \in CallSet :
            /\ ShapeMatches(c.after, c.view)
            /\ ShapeMatches(At(node, c.path), At(view, c.path))
C10_Witness ==
    /\ AfterPass
    /\ \E c \in CallSet : /\ c.view.id = c.before.id
                          /\ c.view.children # <<>>
                          /\ c.before.children # <<>>
                          /\ ~ShapeMatches(c.before, c.view)


\* C11: Tree::new emits exactly one AppendChild(parentId, markup of the
\* view, children written in order), starts with an empty dirty set and
\* stores a Node tree that mirrors the view tree.
AfterNew == last.op = "new"
C11_Create ==
    AfterNew =>
        /\ Len(cmds) = 1
        /\ cmds[1].op = "AppendChild" /\ cmds[1].id = ParentId
        /\ MarkupOf(cmds[1].html, view)
        /\ updated = {}
        /\ Mirrors(node, view)
        /\ doc.children # <<>> /\ DomMirrors(doc.children[1], view)
C11_Witness ==
    /\ AfterNew
    /\ Len(view.children) = 2
    /\ view.children[1].id # view.children[2].id


\* ---------------------------------------------------------------- duplicate sibling ids
\* The application breaks the View contract: children() grows by a view
\* that carries the id of one of its siblings.
PushDup ==
    \E p \in Paths(view) :
        \E i \in 1..Len(At(view, p).children) :
            /\ Len(At(view, p).children) < MaxChildren
            /\ Size(view) < MaxNodes
            /\ Mutate(SetAt(view, p, [At(view, p) EXCEPT
                   !.children = Append(@, Leaf(@[i].id))]))

NextDup ==
    \/ TreeDiff
    \/ TreeUpdate
    \/ Touch
    \/ Pop
    \/ PushDup

SpecDup == Init /\ [][NextDup]_vars

\* No two entries of the list carry the same id.
UniqueIds(list) == \A i, j \in 1..Len(list) : list[i].id = list[j].id => i = j
RECURSIVE SiblingIdsUnique(_)
SiblingIdsUnique(t) ==
    /\ UniqueIds(t.children)
    /\ \A i \in 1..Len(t.children) : SiblingIdsUnique(t.children[i])

\* C12: no diff or render completes on a live children list with two
\* siblings of the same id, and no Node list with duplicate sibling ids is
\* stored in the cache (checked where the application hands over such lists).
C12_FailFast ==
    /\ AfterPass => \A c \in CallSet : SiblingIdsUnique(c.view)
    /\ SiblingIdsUnique(node)


\* A call on a Node and a view of the same id, one of which has children.
IsContainer(c) ==
    c.view.id = c.before.id /\ (c.before.children # <<>> \/ c.view.children # <<>>)
\* From c's Node down to the Node at relative path q, every Node is paired
\* with a view of the same id.
SameIdsDown(c, q) ==
    \A k \in 0..Len(q) : At(c.before, SubSeq(q, 1, k)).id = At(c.view, SubSeq(q, 1, k)).id

\* C13: a diff of a Node with matching id where either side has a child
\* always diffs the children, whether or not the own fingerprint changed;
\* so a leaf below it whose fingerprint changed gets its ReplaceContent in
\* the same pass, whatever the fingerprints of the containers in between.
C13_DescendantPropagation ==
    AfterPass =>
        \A c \in CallSet : IsContainer(c) =>
            /\ ChildIdx(c) = 1..Min(Len(c.before.children), Len(c.view.children))
            /\ \A i \in ChildIdx(c) :
                  /\ ChildCall(c, i).before = c.before.children[i]
                  /\ ChildCall(c, i).view = c.view.children[i]
            /\ Len(c.after.children) = Len(c.view.children)
            /\ \A q \in Paths(c.before) \cap Paths(c.view) :
                  (/\ SameIdsDown(c, q)
                   /\ At(c.before, q).children = <<>> /\ At(c.view, q).children = <<>>
                   /\ state(At(c.view, q)) # At(c.before, q).state) =>
                      LET rc == Cmd("ReplaceContent", At(c.view, q).id,
                                    <<TextToken(At(c.view, q).data)>>, 0)
                      IN /\ \E d \in CallSet : d.path = c.path \o q /\ d.out = <<rc>>
                         /\ \E i \in 1..Len(c.out) : c.out[i] = rc
                         /\ \E i \in 1..Len(cmds) : cmds[i] = rc
C13_Witness ==
    /\ AfterPass
    /\ \E c \in CallSet :
          /\ IsTop(c) /\ IsContainer(c)
          /\ state(c.view) = c.before.state
          /\ \E q \in Paths(c.before) \cap Paths(c.view) :
                /\ Len(q) = 2
                /\ SameIdsDown(c, q)
                /\ state(At(c.view, <<q[1]>>)) = At(c.before, <<q[1]>>).state
                /\ At(c.before, q).children = <<>> /\ At(c.view, q).children = <<>>
                /\ state(At(c.view, q)) # At(c.before, q).state


\* The number of ReplaceContent commands in a command sequence.
RCCount(cs) == Cardinality({i \in 1..Len(cs) : cs[i].op = "ReplaceContent"})
\* What the diffs of c's children emitted.
AllChildOuts(c) == ChildOuts(c, Cardinality(ChildIdx(c)))
IsLeafPair(c) == c.before.children = <<>> /\ c.view.children = <<>>

\* C14: a diff of a Node with matching id and equal fingerprint leaves the
\* cached fingerprint and attribute snapshot as they were, also when the
\* live attributes differ, and emits no ReplaceContent of its own.
C14_UnchangedFingerprint ==
    AfterPass =>
        \A c \in CallSet :
            (c.view.id = c.before.id /\ state(c.view) = c.before.state) =>
                /\ c.after.state = c.before.state
                /\ c.after.attrs = c.before.attrs
                /\ At(node, c.path).attrs = c.before.attrs
                /\ At(node, c.path).state = c.before.state
                /\ IsLeafPair(c) => c.out = <<>> /\ c.after = c.before
                /\ ~IsLeafPair(c) => RCCount(c.out) = RCCount(AllChildOuts(c))
C14_Witness ==
    /\ AfterPass
    /\ \E c \in CallSet : /\ c.view.id = c.before.id
                          /\ state(c.view) = c.before.state
                          /\ c.view.attrs # c.before.attrs

\* C15: the attribute diff compares snapshot and live attributes for exact
\* equality (a key without value is not an absent key): equal, the Node is
\* left as it is; different, the snapshot becomes the live attributes; it
\* emits no command. Node::diff runs it when the fingerprint changed.
C15_AttributeDiff ==
    AfterPass =>
        \A c \in CallSet :
            /\ \A a \in AttrChoices :
                  LET r == diff_attrs(c.before, a)
                  IN /\ r.attrs = a
                     /\ r = [c.before EXCEPT !.attrs = a]
                     /\ (r = c.before) = (\A k \in {"class", "disabled"} :
                                            {e \in a : e.k = k} = {e \in c.before.attrs : e.k = k})
            /\ (c.view.id = c.before.id /\ state(c.view) # c.before.state) =>
                  /\ c.after.attrs = c.view.attrs
                  /\ At(node, c.path).attrs = c.view.attrs
                  /\ IsLeafPair(c) => Len(c.out) = 1 /\ c.out[1].op = "ReplaceContent"
                  /\ ~IsLeafPair(c) => RCCount(c.out) = RCCount(AllChildOuts(c))
C15_Witness ==
    /\ AfterPass
    /\ \E c \in CallSet : /\ c.view.id = c.before.id
                          /\ state(c.view) # c.before.state
                          /\ c.before.attrs = AttrsClass
                          /\ c.view.attrs = AttrsClassDisabled
                          /\ c.after.attrs = AttrsClassDisabled

\* C16: a diff emits a ReplaceContent of its own only for a Node and a view
\* of the same id that both have no children, and only when the
\* fingerprint changed; with a child on either side it emits none, also
\* when the fingerprint changed.
C16_ReplaceContentOnlyLeaf ==
    AfterPass =>
        \A c \in CallSet :
            LET own == RCCount(c.out) - RCCount(AllChildOuts(c))
            IN /\ own \in {0, 1}
               /\ own = 1 => /\ c.view.id = c.before.id
                             /\ IsLeafPair(c)
                             /\ state(c.view) # c.before.state
               /\ (c.before.children # <<>> \/ c.view.children # <<>>) => own = 0
C16_Witness ==
    /\ AfterPass
    /\ \E c \in CallSet : /\ c.view.id = c.before.id
                          /\ c.before.children # <<>>
                          /\ c.view.children = <<>>
                          /\ state(c.view) # c.before.state


\* The ids of the children of a view or Node, in order.
ChildIds(t) == [i \in 1..Len(t.children) |-> t.children[i].id]
\* The ids of the children of the document element with the id, in order.
ElemChildIds(d, id) == ChildIds(At(d, Find(d, id)[1]))
\* The view of c shows the cached children of c's Node in another order.
IsReorder(c) ==
    /\ c.view.id = c.before.id
    /\ Len(c.view.children) = Len(c.before.children)
    /\ UniqueIds(c.before.children) /\ UniqueIds(c.view.children)
    /\ {c.view.children[i].id : i \in 1..Len(c.view.children)}
         = {c.before.children[i].id : i \in 1..Len(c.before.children)}
    /\ ChildIds(c.view) # ChildIds(c.before)

\* C17: when a marked container's live children are its cached children in
\* another order and the document showed the cached order, the commands of
\* the pass, applied in order, leave the container's element with the
\* children ids in the live order.
C17_ReorderOnSurface ==
    AfterPass =>
        \A c \in CallSet :
            (/\ IsTop(c) /\ IsReorder(c) /\ cmds = c.out
             /\ Find(prev.doc, c.before.id) # <<>>
             /\ ElemChildIds(prev.doc, c.before.id) = ChildIds(c.before)) =>
                /\ Find(doc, c.before.id) # <<>>
                /\ ElemChildIds(doc, c.before.id) = ChildIds(c.view)


\* C18: while the live view tree has unique sibling ids at every level, the
\* cached Node tree has unique sibling ids at every level too, after any
\* sequence of view mutations, Tree::update calls and diff passes.
C18_CacheSiblingIdsUnique ==
    SiblingIdsUnique(view) => SiblingIdsUnique(node)


\* Every cached Node above p is unmarked and has the children ids of the
\* live view at its position.
AncestorsQuiet(p) ==
    \A q \in Paths(prev.node) :
        ProperPrefix(q, p) =>
            /\ At(prev.node, q).id \notin prev.marked
            /\ ChildIds(At(prev.node, q)) = ChildIds(At(view, q))
\* The live view at p was marked by its current id before the pass.
MarkedLive(p) ==
    /\ p \in Paths(view) /\ p \in Paths(prev.node)
    /\ At(view, p).id \in prev.marked
    /\ AncestorsQuiet(p)
CachedAs(p) ==
    /\ p \in Paths(node)
    /\ At(node, p).id = At(view, p).id
    /\ At(node, p).state = state(At(view, p))

\* C19 as stated: a live view at a position of the cache, marked by its
\* current id, with unmarked ancestors whose children lists are unchanged,
\* leaves the pass with the cached Node at its position carrying its id and
\* its fingerprint.
C19_MarkReachesView ==
    AfterPass => \A p \in Paths(view) : MarkedLive(p) => CachedAs(p)

\* C19 amended: the same, provided the cached Node at the position carries
\* the view's id before the pass and no cached Node earlier in the walk
\* carries that id.
C19_MarkReachesCached ==
    AfterPass =>
        \A p \in Paths(view) :
            (/\ MarkedLive(p)
             /\ At(prev.node, p).id = At(view, p).id
             /\ \A q \in Paths(prev.node) :
                    Before(q, p) => At(prev.node, q).id # At(view, p).id) =>
                CachedAs(p)
C19_Witness ==
    /\ AfterPass
    /\ \E p \in Paths(view) :
          /\ Len(p) >= 1 /\ MarkedLive(p)
          /\ At(prev.node, p).id = At(view, p).id
          /\ \A q \in Paths(prev.node) :
                Before(q, p) => At(prev.node, q).id # At(view, p).id
          /\ At(prev.node, p).state # state(At(view, p))
          /\ CachedAs(p)


\* Every command of cs, applied in order from the document d, names an
\* element that is in the document at that moment, and the script of a
\* RemoveTrailingChildren finds a last child each time it removes one.
RECURSIVE CommandsLand(_, _)
CommandsLand(d, cs) ==
    \/ cs = <<>>
    \/ LET c == Head(cs)
           f == Find(d, c.id)
       IN /\ f # <<>>
          /\ c.op = "RemoveTrailingChildren" =>
                LoopRuns(c.n) <= Len(At(d, f[1]).children)
          /\ CommandsLand(ApplyCmd(d, c), Tail(cs))

\* C20: every command a diff pass emits names an element that is on the
\* rendering surface when the command is applied (commands applied in
\* emission order), and RemoveTrailingChildren never removes more children
\* than its element has.
C20_CommandsLand ==
    AfterPass => CommandsLand(prev.doc, cmds)

====
